---- MODULE Spec2Model ----
(***************************************************************************)
(* Blogicum (blog/views.py, blog/forms.py): the request handlers of the    *)
(* blog, as a state machine over the database tables they read and write.  *)
(* One action per view; a view action takes the server from idle to the    *)
(* completed exchange (request, response, new database), Return hands the  *)
(* response back and makes the server idle again.                          *)
(***************************************************************************)
EXTENDS Integers, Sequences, FiniteSets, TLC

\* ------------------------------------------------------------------ bounds
MaxPosts == 1
MaxComments == 1
MaxTime == 1
MaxPage == 2

\* ------------------------------------------------------- the small domains
Null == "None"
Anonymous == "AnonymousUser"
UserIds == {"u1", "u2"}
Identities == UserIds \cup {Anonymous}
Usernames == {"alice", "bob", "carol"}
CategorySlugs == {"c1", "c2"}
LocationIds == {"l1"}
Titles == {"t"}
Texts == {"x", "y"}
PostIds == 1..(MaxPosts + 1)
CommentIds == 1..(MaxComments + 1)
Times == 0..MaxTime

VARIABLES users, categories, posts, comments, next_post_id, next_comment_id,
          now, request, response

dbvars == <<users, categories, posts, comments, next_post_id, next_comment_id>>
vars == <<users, categories, posts, comments, next_post_id, next_comment_id,
          now, request, response>>

\* --------------------------------------------------------------- requests
\* request.POST is a QueryDict: a function from the submitted keys to their
\* values; the empty one is falsy ("request.POST or None").
EmptyPOST == [k \in {} |-> ""]

NoRequest == [view |-> "none", user |-> Anonymous, method |-> "GET",
              post_id |-> 0, comment_id |-> 0, username |-> "",
              category_slug |-> "", page |-> 1, POST |-> EmptyPOST]
NoResponse == [status |-> "none"]

\* What a client can put into the body of a post form, a comment form and a
\* profile form.  The post body always carries an "author" key: the form must
\* ignore it.
PostBodies ==
    [title : Titles, is_published : BOOLEAN, pub_date : Times,
     category : CategorySlugs \cup {Null}, location : LocationIds \cup {Null},
     author : {"u1"}]
    \cup [title : {""}, is_published : {TRUE}, pub_date : {0},
          category : {"c1", "c0"}, location : {Null}, author : {"u1"}]
    \cup [title : Titles, is_published : {TRUE}, pub_date : {0},
          category : {"c0"}, location : {Null}, author : {"u1"}]
CommentBodies == [text : Texts \cup {""}]
ProfileBodies == [username : Usernames \cup {""}]

\* -------------------------------------------------------------- responses
Http404 == [status |-> "not_found"]
render(template, context) ==
    [status |-> "render", template |-> template, context |-> context]
\* redirect(to, *args): the view's name and the argument its URL takes, a
\* post id for blog:post_detail, a username for blog:profile.
redirect(name, post_id, username) ==
    [status |-> "redirect", to |-> name, post_id |-> post_id,
     username |-> username]
\* @login_required answers an anonymous request with a redirect to the login
\* page.
redirect_to_login == redirect("login", 0, "")

Range(s) == {s[i] : i \in 1..Len(s)}

\* ------------------------------------------------------------------ models
\* The columns of a Post and of a Comment row that the handlers touch.
Post_fields == {"title", "is_published", "pub_date", "author", "category",
                "location"}
BlankPost == [title |-> "", is_published |-> FALSE, pub_date |-> 0,
              author |-> Null, category |-> Null, location |-> Null]
BlankComment == [text |-> "", author |-> Null, post |-> 0, created_at |-> 0]

\* get_object_or_404(Model, id=...) finds a row or raises Http404.
PostExists(id) == id \in DOMAIN posts
CommentExists(id) == id \in DOMAIN comments
UserByUsername(name) == {u \in DOMAIN users : users[u].username = name}
\* str(user), as redirect('blog:profile', request.user) puts it into the URL.
str_user(table, u) ==
    IF u \in DOMAIN table THEN table[u].username ELSE Anonymous

\* post.delete(): the row goes, and with it the comments that point to it.
Post_delete(id) ==
    /\ posts' = [i \in DOMAIN posts \ {id} |-> posts[i]]
    /\ comments' = [c \in {k \in DOMAIN comments : comments[k].post # id}
                      |-> comments[c]]

\* ------------------------------------------------------------------- forms
PostForm_exclude_NoAuthor == {"created_at"}
PostForm_exclude == {"author", "created_at"}
PostForm_fields == Post_fields \ PostForm_exclude
CommentForm_fields == {"text"}
ProfileForm_fields == {"username"}

\* A form built from "request.POST or None" is bound only to a non-empty
\* QueryDict; an unbound form is never valid.
is_bound(data) == DOMAIN data # {}

PostField_ok(f, data) ==
    CASE f = "title" -> data[f] # ""
      [] f = "author" -> data[f] \in DOMAIN users
      [] f = "category" -> data[f] \in DOMAIN categories \cup {Null}
      [] f = "location" -> data[f] \in LocationIds \cup {Null}
      [] OTHER -> TRUE

PostForm_is_valid(data) ==
    /\ is_bound(data)
    /\ \A f \in PostForm_fields : PostField_ok(f, data)

CommentForm_is_valid(data) ==
    /\ is_bound(data)
    /\ \A f \in CommentForm_fields : data[f] # ""

\* ProfileForm(request.POST, instance=request.user) is always bound; the
\* username is required and unique among the other users.
ProfileForm_is_valid(data, uid) ==
    /\ "username" \in DOMAIN data
    /\ data.username # ""
    /\ \A o \in DOMAIN users \ {uid} : users[o].username # data.username

\* form.save(commit=False): the form's fields are copied from the submitted
\* data onto the instance, every other column keeps the instance's value.
construct_instance(instance, data, fields) ==
    [f \in DOMAIN instance |-> IF f \in fields THEN data[f] ELSE instance[f]]

\* ------------------------------------------------------------------- utils
PageSize == 10

Visible(id) ==
    /\ posts[id].is_published
    /\ posts[id].pub_date <= now
    /\ \/ posts[id].category = Null
       \/ categories[posts[id].category].is_published

RECURSIVE OrderPosts(_)
OrderPosts(S) ==
    IF S = {} THEN <<>>
    ELSE LET first == CHOOSE i \in S : \A j \in S :
                        \/ posts[i].pub_date > posts[j].pub_date
                        \/ posts[i].pub_date = posts[j].pub_date /\ i <= j
         IN <<first>> \o OrderPosts(S \ {first})

\* query_post(manager=Post.objects, filters=True)
query_post(manager, filters) ==
    OrderPosts({id \in manager : filters => Visible(id)})

\* posts_pagination(request, posts): the page of PageSize posts that the
\* request's page number names, clamped to the pages that exist.
posts_pagination(req, seq) ==
    LET n == Len(seq)
        num_pages == IF n = 0 THEN 1 ELSE (n + PageSize - 1) \div PageSize
        number == IF req.page < 1 THEN 1
                  ELSE IF req.page > num_pages THEN num_pages ELSE req.page
        last == IF number * PageSize < n THEN number * PageSize ELSE n
    IN [number |-> number,
        object_list |-> SubSeq(seq, (number - 1) * PageSize + 1, last),
        paginator |-> [object_list |-> seq, num_pages |-> num_pages]]

RECURSIVE OrderComments(_)
OrderComments(S) ==
    IF S = {} THEN <<>>
    ELSE LET first == CHOOSE i \in S : \A j \in S :
                        \/ comments[i].created_at < comments[j].created_at
                        \/ comments[i].created_at = comments[j].created_at
                           /\ i <= j
         IN <<first>> \o OrderComments(S \ {first})

\* ------------------------------------------------------------------- state
TypeOK ==
    /\ DOMAIN users = UserIds
    /\ \A u \in UserIds : users[u].username \in Usernames
    /\ DOMAIN categories = CategorySlugs
    /\ DOMAIN posts \subseteq 1..(next_post_id - 1)
    /\ DOMAIN comments \subseteq 1..(next_comment_id - 1)
    /\ next_post_id \in 1..(MaxPosts + 1)
    /\ next_comment_id \in 1..(MaxComments + 1)
    /\ now \in Times

Init ==
    /\ users = [u \in UserIds |->
                  [username |-> IF u = "u1" THEN "alice" ELSE "bob"]]
    /\ categories = [c \in CategorySlugs |-> [is_published |-> c = "c1"]]
    /\ posts = [i \in {} |-> BlankPost]
    /\ comments = [i \in {} |-> BlankComment]
    /\ next_post_id = 1
    /\ next_comment_id = 1
    /\ now = 0
    /\ request = NoRequest
    /\ response = NoResponse

Idle == request = NoRequest

\* ------------------------------------------------------------------- views
login_required_Off(req) == TRUE
login_required(req) == req.user # Anonymous

index(req) ==
    /\ Idle
    /\ request' = req
    /\ response' = render("blog/index.html",
          [page_obj |-> posts_pagination(req, query_post(DOMAIN posts, TRUE))])
    /\ UNCHANGED <<dbvars, now>>

category_posts(req) ==
    /\ Idle
    /\ request' = req
    /\ response' =
         IF /\ req.category_slug \in DOMAIN categories
            /\ categories[req.category_slug].is_published
         THEN render("blog/category.html",
                [category |-> req.category_slug,
                 page_obj |-> posts_pagination(req, query_post(
                    {i \in DOMAIN posts :
                        posts[i].category = req.category_slug},
                    TRUE))])
         ELSE Http404
    /\ UNCHANGED <<dbvars, now>>

post_detail_restricted_Always(req, post) == TRUE
post_detail_restricted_Never(req, post) == FALSE
post_detail_restricted(req, post) == post.author # req.user

post_detail(req) ==
    /\ Idle
    /\ request' = req
    /\ response' =
         IF ~PostExists(req.post_id) THEN Http404
         ELSE IF /\ post_detail_restricted(req, posts[req.post_id])
                 /\ req.post_id \notin Range(query_post(DOMAIN posts, TRUE))
         THEN Http404
         ELSE render("blog/detail.html",
                [post |-> req.post_id,
                 form |-> "CommentForm",
                 comments |-> OrderComments(
                    {c \in DOMAIN comments : comments[c].post = req.post_id})])
    /\ UNCHANGED <<dbvars, now>>


\* post.author = request.user
create_post_author_FromData(req) == req.POST.author
create_post_author(req) == req.user

create_post(req) ==
    /\ Idle
    /\ request' = req
    /\ IF ~login_required(req)
       THEN /\ response' = redirect_to_login
            /\ UNCHANGED <<dbvars, now>>
       ELSE IF PostForm_is_valid(req.POST)
       THEN /\ next_post_id <= MaxPosts
            /\ LET post == construct_instance(BlankPost, req.POST,
                                              PostForm_fields)
               IN posts' = (next_post_id :>
                              [post EXCEPT !.author = create_post_author(req)])
                           @@ posts
            /\ next_post_id' = next_post_id + 1
            /\ response' = redirect("blog:profile", 0,
                                    str_user(users, req.user))
            /\ UNCHANGED <<users, categories, comments, next_comment_id, now>>
       ELSE /\ response' = render("blog/create.html", [form |-> "PostForm"])
            /\ UNCHANGED <<dbvars, now>>

edit_post_denied(req, post) == req.user # post.author

edit_post(req) ==
    /\ Idle
    /\ request' = req
    /\ IF ~login_required(req)
       THEN /\ response' = redirect_to_login
            /\ UNCHANGED <<dbvars, now>>
       ELSE IF ~PostExists(req.post_id)
       THEN /\ response' = Http404
            /\ UNCHANGED <<dbvars, now>>
       ELSE IF edit_post_denied(req, posts[req.post_id])
       THEN /\ response' = redirect("blog:post_detail", req.post_id, "")
            /\ UNCHANGED <<dbvars, now>>
       ELSE IF PostForm_is_valid(req.POST)
       THEN /\ posts' = [posts EXCEPT ![req.post_id] =
                           construct_instance(@, req.POST, PostForm_fields)]
            /\ response' = redirect("blog:post_detail", req.post_id, "")
            /\ UNCHANGED <<users, categories, comments, next_post_id,
                           next_comment_id, now>>
       ELSE /\ response' = render("blog/create.html", [form |-> "PostForm"])
            /\ UNCHANGED <<dbvars, now>>

delete_post_confirmed_Always(req) == TRUE
delete_post_confirmed(req) == req.method = "POST"

delete_post(req) ==
    /\ Idle
    /\ request' = req
    /\ IF ~login_required(req)
       THEN /\ response' = redirect_to_login
            /\ UNCHANGED <<dbvars, now>>
       ELSE IF ~PostExists(req.post_id)
       THEN /\ response' = Http404
            /\ UNCHANGED <<dbvars, now>>
       ELSE IF req.user # posts[req.post_id].author
       THEN /\ response' = redirect("blog:post_detail", req.post_id, "")
            /\ UNCHANGED <<dbvars, now>>
       ELSE IF delete_post_confirmed(req)
       THEN /\ Post_delete(req.post_id)
            /\ response' = redirect("blog:index", 0, "")
            /\ UNCHANGED <<users, categories, next_post_id, next_comment_id,
                           now>>
       ELSE /\ response' = render("blog/create.html", [form |-> "PostForm"])
            /\ UNCHANGED <<dbvars, now>>

profile_filters_Off(req, owner) == FALSE
profile_filters(req, owner) == owner # req.user

profile(req) ==
    /\ Idle
    /\ request' = req
    /\ response' =
         IF UserByUsername(req.username) = {} THEN Http404
         ELSE LET owner == CHOOSE u \in UserByUsername(req.username) : TRUE
              IN render("blog/profile.html",
                   [profile |-> owner,
                    page_obj |-> posts_pagination(req, query_post(
                       {i \in DOMAIN posts : posts[i].author = owner},
                       profile_filters(req, owner)))])
    /\ UNCHANGED <<dbvars, now>>

edit_profile(req) ==
    /\ Idle
    /\ request' = req
    /\ IF ~login_required(req)
       THEN /\ response' = redirect_to_login
            /\ UNCHANGED <<dbvars, now>>
       ELSE IF ProfileForm_is_valid(req.POST, req.user)
       THEN /\ users' = [users EXCEPT ![req.user] =
                           construct_instance(@, req.POST, ProfileForm_fields)]
            /\ response' = redirect("blog:profile", 0,
                                    str_user(users', req.user))
            /\ UNCHANGED <<categories, posts, comments, next_post_id,
                           next_comment_id, now>>
       ELSE /\ response' = render("blog/user.html", [form |-> "ProfileForm"])
            /\ UNCHANGED <<dbvars, now>>

add_comment(req) ==
    /\ Idle
    /\ request' = req
    /\ IF ~login_required(req)
       THEN /\ response' = redirect_to_login
            /\ UNCHANGED <<dbvars, now>>
       ELSE IF ~PostExists(req.post_id)
       THEN /\ response' = Http404
            /\ UNCHANGED <<dbvars, now>>
       ELSE /\ IF CommentForm_is_valid(req.POST)
               THEN /\ next_comment_id <= MaxComments
                    /\ LET comment == construct_instance(BlankComment,
                                         req.POST, CommentForm_fields)
                       IN comments' = (next_comment_id :>
                                         [comment EXCEPT !.post = req.post_id,
                                                         !.author = req.user,
                                                         !.created_at = now])
                                      @@ comments
                    /\ next_comment_id' = next_comment_id + 1
                    /\ UNCHANGED <<users, categories, posts, next_post_id, now>>
               ELSE UNCHANGED <<dbvars, now>>
            /\ response' = redirect("blog:post_detail", req.post_id, "")

edit_comment_saves_Unchecked(req) == is_bound(req.POST)
edit_comment_saves(req) == CommentForm_is_valid(req.POST)

edit_comment(req) ==
    /\ Idle
    /\ request' = req
    /\ IF ~login_required(req)
       THEN /\ response' = redirect_to_login
            /\ UNCHANGED <<dbvars, now>>
       ELSE IF ~CommentExists(req.comment_id)
       THEN /\ response' = Http404
            /\ UNCHANGED <<dbvars, now>>
       ELSE IF req.user # comments[req.comment_id].author
       THEN /\ response' = redirect("blog:post_detail", req.post_id, "")
            /\ UNCHANGED <<dbvars, now>>
       ELSE IF edit_comment_saves(req)
       THEN /\ comments' = [comments EXCEPT ![req.comment_id] =
                              construct_instance(@, req.POST,
                                                 CommentForm_fields)]
            /\ response' = redirect("blog:post_detail", req.post_id, "")
            /\ UNCHANGED <<users, categories, posts, next_post_id,
                           next_comment_id, now>>
       ELSE /\ response' = render("blog/comment.html",
                              [form |-> "CommentForm",
                               comment |-> req.comment_id])
            /\ UNCHANGED <<dbvars, now>>

delete_comment_denied_Never(req, comment) == FALSE
delete_comment_denied(req, comment) == req.user # comment.author

delete_comment(req) ==
    /\ Idle
    /\ request' = req
    /\ IF ~login_required(req)
       THEN /\ response' = redirect_to_login
            /\ UNCHANGED <<dbvars, now>>
       ELSE IF ~CommentExists(req.comment_id)
       THEN /\ response' = Http404
            /\ UNCHANGED <<dbvars, now>>
       ELSE IF delete_comment_denied(req, comments[req.comment_id])
       THEN /\ response' = redirect("blog:post_detail", req.post_id, "")
            /\ UNCHANGED <<dbvars, now>>
       ELSE IF req.method = "POST"
       THEN /\ comments' = [c \in DOMAIN comments \ {req.comment_id}
                              |-> comments[c]]
            /\ response' = redirect("blog:post_detail", req.post_id, "")
            /\ UNCHANGED <<users, categories, posts, next_post_id,
                           next_comment_id, now>>
       ELSE /\ response' = render("blog/comment.html",
                              [comment |-> req.comment_id])
            /\ UNCHANGED <<dbvars, now>>

\* ------------------------------------------------------------ environment
\* The response goes back to the client and the server waits for the next
\* request.
Return ==
    /\ ~Idle
    /\ request' = NoRequest
    /\ response' = NoResponse
    /\ UNCHANGED <<dbvars, now>>

\* The clock that pub_date is compared with moves on between requests.
Tick ==
    /\ Idle
    /\ now < MaxTime
    /\ now' = now + 1
    /\ UNCHANGED <<dbvars, request, response>>

\* ---------------------------------------------------------- the requests
\* A GET request has an empty request.POST; a POST request carries a body,
\* which may be empty too.
Req(view, user, method, body) ==
    [NoRequest EXCEPT !.view = view, !.user = user, !.method = method,
                      !.POST = IF method = "POST" THEN body ELSE EmptyPOST]

Submissions(view, Bodies) ==
    {Req(view, u, "GET", EmptyPOST) : u \in Identities}
    \cup {Req(view, u, "POST", b) : u \in Identities,
                                    b \in Bodies \cup {EmptyPOST}}

Listings(view) ==
    {[Req(view, u, "GET", EmptyPOST) EXCEPT !.page = pg] :
        u \in Identities, pg \in 1..MaxPage}

Next ==
    \/ \E r \in Listings("index") : index(r)
    \/ \E r \in Listings("category_posts"),
          slug \in CategorySlugs \cup {"c0"} :
          category_posts([r EXCEPT !.category_slug = slug])
    \/ \E r \in Listings("profile"), name \in Usernames :
          profile([r EXCEPT !.username = name])
    \/ \E u \in Identities, id \in PostIds :
          post_detail([Req("post_detail", u, "GET", EmptyPOST)
                         EXCEPT !.post_id = id])
    \/ \E r \in Submissions("create_post", PostBodies) : create_post(r)
    \/ \E r \in Submissions("edit_post", PostBodies), id \in PostIds :
          edit_post([r EXCEPT !.post_id = id])
    \/ \E r \in Submissions("delete_post", {}), id \in PostIds :
          delete_post([r EXCEPT !.post_id = id])
    \/ \E r \in Submissions("edit_profile", ProfileBodies) : edit_profile(r)
    \/ \E r \in Submissions("add_comment", CommentBodies), id \in PostIds :
          add_comment([r EXCEPT !.post_id = id])
    \/ \E r \in Submissions("edit_comment", CommentBodies), id \in PostIds,
          cid \in CommentIds :
          edit_comment([r EXCEPT !.post_id = id, !.comment_id = cid])
    \/ \E r \in Submissions("delete_comment", {}), id \in PostIds,
          cid \in CommentIds :
          delete_comment([r EXCEPT !.post_id = id, !.comment_id = cid])
    \/ Return
    \/ Tick

Spec == Init /\ [][Next]_vars

\* ------------------------------------------------------------------ claims
records == <<users, posts, comments>>
MutatingViews == {"create_post", "edit_post", "delete_post", "add_comment",
                  "edit_comment", "delete_comment", "edit_profile"}

\* The request is for a post or a comment that exists and comes from someone
\* who is not its author.
C1_NotTheAuthor(req) ==
    \/ /\ req.view \in {"edit_post", "delete_post"}
       /\ req.post_id \in DOMAIN posts
       /\ req.user # posts[req.post_id].author
    \/ /\ req.view \in {"edit_comment", "delete_comment"}
       /\ req.comment_id \in DOMAIN comments
       /\ req.user # comments[req.comment_id].author

\* C1 as stated: whoever is not the author of the record, a GET or POST to
\* edit_post, delete_post, edit_comment or delete_comment changes no record
\* and is answered with a redirect to the post detail view.
C1_NonAuthorRedirectedToDetail ==
    [][C1_NotTheAuthor(request') =>
         /\ UNCHANGED records
         /\ response'.status = "redirect"
         /\ response'.to = "blog:post_detail"]_vars

\* C1 amended: an authenticated user who is not the author changes no record
\* and is redirected to the detail view of the request's post_id; an
\* anonymous user changes no record and is redirected to the login page.
C1_AuthenticatedNonAuthorRedirectedToDetail ==
    [][C1_NotTheAuthor(request') =>
         /\ UNCHANGED records
         /\ IF request'.user = Anonymous
            THEN response' = redirect_to_login
            ELSE response' = redirect("blog:post_detail",
                                      request'.post_id, "")]_vars

C1_Witness ==
    /\ request.view = "delete_comment"
    /\ request.method = "POST"
    /\ request.user \in UserIds
    /\ request.comment_id \in DOMAIN comments
    /\ comments[request.comment_id].author # request.user
    /\ response = redirect("blog:post_detail", request.post_id, "")

C2_Hidden(id) ==
    \/ ~posts[id].is_published
    \/ posts[id].pub_date > now
    \/ /\ posts[id].category # Null
       /\ ~categories[posts[id].category].is_published

C2_PublicListing ==
    /\ response.status = "render"
    /\ \/ request.view \in {"index", "category_posts"}
       \/ /\ request.view = "profile"
          /\ request.user \notin UserByUsername(request.username)

\* C2: a post that is unpublished, dated in the future or in an unpublished
\* category is on no page of the index, of a category listing, or of a
\* profile shown to someone other than the profile's owner.
C2_HiddenPostsNeverListed ==
    C2_PublicListing =>
        \A id \in DOMAIN posts :
            C2_Hidden(id) =>
                id \notin Range(response.context.page_obj.paginator.object_list)

C2_Witness ==
    /\ request.view = "profile"
    /\ response.status = "render"
    /\ request.user \in UserIds \ UserByUsername(request.username)
    /\ \E id \in DOMAIN posts :
          /\ posts[id].author \in UserByUsername(request.username)
          /\ C2_Hidden(id)

\* C3: the author's post_detail request for an existing post shows the post
\* and the author's own profile lists every post of theirs, whatever the
\* publication state.
C3_AuthorAlwaysSeesOwnPost ==
    /\ (/\ request.view = "post_detail"
        /\ request.post_id \in DOMAIN posts
        /\ posts[request.post_id].author = request.user)
       => /\ response.status = "render"
          /\ response.template = "blog/detail.html"
          /\ response.context.post = request.post_id
    /\ (/\ request.view = "profile"
        /\ request.user \in UserByUsername(request.username))
       => /\ response.status = "render"
          /\ \A id \in DOMAIN posts :
                posts[id].author = request.user =>
                    id \in Range(
                        response.context.page_obj.paginator.object_list)

C3_Witness ==
    /\ request.view = "post_detail"
    /\ request.post_id \in DOMAIN posts
    /\ posts[request.post_id].author = request.user
    /\ C2_Hidden(request.post_id)
    /\ response.status = "render"

C4_Passes(id) ==
    /\ posts[id].is_published
    /\ ~(posts[id].pub_date > now)
    /\ \/ posts[id].category = Null
       \/ categories[posts[id].category].is_published

\* C4: post_detail for a viewer who is not the author answers not-found when
\* the post fails the visibility predicate, exactly as for an id that does
\* not exist, and shows the post only when the predicate holds.
C4_HiddenLooksMissing ==
    request.view = "post_detail" =>
        IF request.post_id \notin DOMAIN posts THEN response = Http404
        ELSE posts[request.post_id].author # request.user =>
                IF C4_Passes(request.post_id)
                THEN /\ response.status = "render"
                     /\ response.context.post = request.post_id
                ELSE response = Http404

C4_Witness ==
    /\ request.view = "post_detail"
    /\ request.post_id \in DOMAIN posts
    /\ posts[request.post_id].author # request.user
    /\ ~C4_Passes(request.post_id)
    /\ response = Http404

\* C5: a valid create_post submission of an authenticated user adds exactly
\* one post, its author is the acting user whatever "author" the body names,
\* and the answer is a redirect to the acting user's profile.
C5_CreatedPostBelongsToActor ==
    [][(/\ request'.view = "create_post"
        /\ request'.user # Anonymous
        /\ PostForm_is_valid(request'.POST))
       => /\ \E id \in DOMAIN posts' \ DOMAIN posts :
                /\ DOMAIN posts' = DOMAIN posts \cup {id}
                /\ posts'[id].author = request'.user
          /\ \A id \in DOMAIN posts : posts'[id] = posts[id]
          /\ response' = redirect("blog:profile", 0,
                                  users[request'.user].username)]_vars

C5_Witness ==
    /\ request.view = "create_post"
    /\ request.user \in UserIds
    /\ response.status = "redirect"
    /\ request.POST.author # request.user
    /\ \E id \in DOMAIN posts : posts[id].author = request.user

\* The handler got as far as validating the submitted form, and the form is
\* not valid.
C6_FailsValidation(req) ==
    /\ req.method = "POST"
    /\ req.user # Anonymous
    /\ CASE req.view = "create_post" -> ~PostForm_is_valid(req.POST)
         [] req.view = "edit_post" ->
                /\ req.post_id \in DOMAIN posts
                /\ posts[req.post_id].author = req.user
                /\ ~PostForm_is_valid(req.POST)
         [] req.view = "add_comment" ->
                /\ req.post_id \in DOMAIN posts
                /\ ~CommentForm_is_valid(req.POST)
         [] req.view = "edit_comment" ->
                /\ req.comment_id \in DOMAIN comments
                /\ comments[req.comment_id].author = req.user
                /\ ~CommentForm_is_valid(req.POST)
         [] req.view = "edit_profile" ->
                ~ProfileForm_is_valid(req.POST, req.user)
         [] OTHER -> FALSE

\* C6 as stated: in create_post, edit_post, add_comment, edit_comment and
\* edit_profile a submission that fails validation stores nothing and is
\* answered by rendering the form again, not by a redirect.
C6_InvalidFormIsRerendered ==
    [][C6_FailsValidation(request') =>
         /\ UNCHANGED dbvars
         /\ response'.status = "render"]_vars

\* C6 amended: a submission that fails validation stores nothing; create_post,
\* edit_post, edit_comment and edit_profile render the form again, add_comment
\* redirects to the detail view of the request's post.
C6_InvalidFormStoresNothing ==
    [][C6_FailsValidation(request') =>
         /\ UNCHANGED dbvars
         /\ IF request'.view = "add_comment"
            THEN response' = redirect("blog:post_detail", request'.post_id, "")
            ELSE /\ response'.status = "render"
                 /\ response'.template \in {"blog/create.html",
                                            "blog/comment.html",
                                            "blog/user.html"}]_vars

C6_Witness ==
    /\ request.view = "edit_comment"
    /\ request.method = "POST"
    /\ request.comment_id \in DOMAIN comments
    /\ comments[request.comment_id].author = request.user
    /\ is_bound(request.POST)
    /\ ~CommentForm_is_valid(request.POST)
    /\ response.status = "render"

\* C7: every redirect that add_comment, edit_comment and delete_comment issue
\* goes to the detail view of the comment's parent post, whatever post_id and
\* comment_id the request combines.  (The redirect to the login page comes
\* from the login_required decorator, not from the view.)
C7_CommentRedirectsToParent ==
    [][(/\ request'.view \in {"add_comment", "edit_comment", "delete_comment"}
        /\ response'.status = "redirect"
        /\ response' # redirect_to_login)
       => /\ response'.to = "blog:post_detail"
          /\ response'.post_id =
                IF request'.view = "add_comment" THEN request'.post_id
                ELSE comments[request'.comment_id].post]_vars

\* C8: an anonymous request to a view that requires login creates, changes
\* and deletes no post, comment or user.
C8_AnonymousChangesNothing ==
    [][(request'.user = Anonymous /\ request'.view \in MutatingViews)
       => UNCHANGED records]_vars

C8_Witness ==
    /\ request.user = Anonymous
    /\ request.view = "edit_post"
    /\ request.method = "POST"
    /\ request.post_id \in DOMAIN posts
    /\ PostForm_is_valid(request.POST)
    /\ response = redirect_to_login

C9_ByAuthor(req) ==
    /\ req.view = "delete_post"
    /\ req.post_id \in DOMAIN posts
    /\ posts[req.post_id].author = req.user

C9_Removed(id) == id \in 1..(next_post_id - 1) \ DOMAIN posts

C9_DeleteSteps ==
    /\ (C9_ByAuthor(request') /\ request'.method = "GET")
       => /\ response'.status = "render"
          /\ UNCHANGED dbvars
    /\ (C9_ByAuthor(request') /\ request'.method = "POST")
       => /\ request'.post_id \notin DOMAIN posts'
          /\ response' = redirect("blog:index", 0, "")
    /\ \A id \in PostIds : C9_Removed(id) => C9_Removed(id)'

C9_AboutRemovedPost(req) ==
    /\ req.view \in {"post_detail", "edit_post", "delete_post", "add_comment"}
    /\ C9_Removed(req.post_id)

\* C9 as stated: the author's GET to delete_post shows the confirmation and
\* keeps the post, the author's POST removes it and redirects to the index,
\* and from then on every post_detail, edit_post, delete_post and add_comment
\* request for that id is answered not-found.
C9_DeletedPostIsGone ==
    [][/\ C9_DeleteSteps
       /\ C9_AboutRemovedPost(request') => response' = Http404]_vars

\* C9 amended: as C9, but of the later requests only post_detail and the
\* edit_post, delete_post and add_comment requests of authenticated users are
\* answered not-found; an anonymous edit_post, delete_post or add_comment
\* request is redirected to the login page.
C9_DeletedPostIsGoneForUsers ==
    [][/\ C9_DeleteSteps
       /\ C9_AboutRemovedPost(request') =>
            IF request'.view # "post_detail" /\ request'.user = Anonymous
            THEN response' = redirect_to_login
            ELSE response' = Http404]_vars

C9_Witness ==
    /\ request.view = "edit_post"
    /\ request.user \in UserIds
    /\ C9_Removed(request.post_id)
    /\ response = Http404

C10_Kept(cols, ccols) ==
    /\ \A id \in DOMAIN posts \cap DOMAIN posts' :
          \A f \in cols : posts'[id][f] = posts[id][f]
    /\ \A c \in DOMAIN comments \cap DOMAIN comments' :
          \A f \in ccols : comments'[c][f] = comments[c][f]

\* C10 as stated: post.author, post.category, post.location, comment.author
\* and comment.post of an existing record never change, whatever is created,
\* edited or deleted.
C10_ForeignKeysNeverChange ==
    [][C10_Kept({"author", "category", "location"}, {"author", "post"})]_vars

\* C10 amended: post.author, comment.author and comment.post of an existing
\* record never change; post.category and post.location change only through
\* a valid edit_post submission of the post's author, which sets them to the
\* submitted values.
C10_OwnershipKeysNeverChange ==
    [][/\ C10_Kept({"author"}, {"author", "post"})
       /\ \A id \in DOMAIN posts \cap DOMAIN posts' :
             \A f \in {"category", "location"} :
                posts'[id][f] # posts[id][f] =>
                    /\ request'.view = "edit_post"
                    /\ request'.post_id = id
                    /\ request'.user = posts[id].author
                    /\ posts'[id][f] = request'.POST[f]]_vars

C10_Witness ==
    /\ request.view = "edit_post"
    /\ response = redirect("blog:post_detail", request.post_id, "")
    /\ request.post_id \in DOMAIN posts
    /\ posts[request.post_id].author = request.user
    /\ request.POST.author # request.user
    /\ posts[request.post_id].category = request.POST.category

====
